---------------------------- MODULE Spec2Model ----------------------------
(***************************************************************************)
(* A model of the ixdtf package (RFC 9557 Internet Extended Date/Time      *)
(* Format): Parse, Validate, Format and FormatNano of src/ixdtf.go, with   *)
(* the grammar patterns of src/abnf/abnf.go.                               *)
(*                                                                         *)
(* Strings are sequences of one-character strings, so that the scanners    *)
(* of the code (findRFC3339End, parseSuffix, handleExtensionTag) and the   *)
(* regular expressions of abnf.go are computed character by character.     *)
(* The standard library's package time is modelled on a window of three    *)
(* calendar days around 2025-06-01 and a small zone database.              *)
(***************************************************************************)
EXTENDS Integers, Sequences, FiniteSets, TLC

VARIABLES
    op,       \* the call that produced this state
    input,    \* the string handed to Parse or Validate
    strict,   \* the strict flag of that call
    tm,       \* the time.Time returned by Parse, or handed to Format
    ext,      \* the *IXDTFExtensions returned by Parse, or handed to Format
    origin,   \* where tm and ext come from: "none", "parsed" or "built"
    keyOrder, \* the order in which appendSuffix's range loop collected the keys
    err,      \* the error returned ("nil" when none)
    output,   \* the string returned by Format or FormatNano
    cache,    \* the process-wide cache of resolved zones: name -> location
    calls     \* the zone lookups in flight, one for each parallel call

callVars == <<op, input, strict, tm, ext, origin, keyOrder, err, output>>

zoneVars == <<cache, calls>>

vars == <<op, input, strict, tm, ext, origin, keyOrder, err, output, cache, calls>>

---------------------------------------------------------------------------
(* Characters and character classes                                        *)

Lower == {"a","b","c","d","e","f","g","h","i","j","k","l","m",
          "n","o","p","q","r","s","t","u","v","w","x","y","z"}

Upper == {"A","B","C","D","E","F","G","H","I","J","K","L","M",
          "N","O","P","Q","R","S","T","U","V","W","X","Y","Z"}

DigitSeq == <<"0","1","2","3","4","5","6","7","8","9">>

LowerSeq == <<"a","b","c","d","e","f","g","h","i","j","k","l","m",
              "n","o","p","q","r","s","t","u","v","w","x","y","z">>

UpperSeq == <<"A","B","C","D","E","F","G","H","I","J","K","L","M",
              "N","O","P","Q","R","S","T","U","V","W","X","Y","Z">>

Digit == {DigitSeq[i] : i \in 1..10}

Alpha == Lower \cup Upper

Alnum == Alpha \cup Digit

\* The position of c in the sequence q (c occurs in q).
IndexIn(q, c) == CHOOSE i \in 1..Len(q) : q[i] = c

\* The numeric value of a decimal digit character.
DigitVal(c) == IndexIn(DigitSeq, c) - 1

\* The byte value of a character: Go compares strings byte by byte.
Ord(c) ==
    IF c \in Digit THEN 48 + DigitVal(c)
    ELSE IF c \in Upper THEN 64 + IndexIn(UpperSeq, c)
    ELSE IF c \in Lower THEN 96 + IndexIn(LowerSeq, c)
    ELSE CASE c = " " -> 32
           [] c = "!" -> 33
           [] c = "+" -> 43
           [] c = "," -> 44
           [] c = "-" -> 45
           [] c = "." -> 46
           [] c = "/" -> 47
           [] c = ":" -> 58
           [] c = "=" -> 61
           [] c = "@" -> 64
           [] c = "[" -> 91
           [] c = "]" -> 93
           [] c = "_" -> 95

\* Go's s1 > s2 on strings: bytewise lexicographic order.
RECURSIVE StrGreater(_, _)
StrGreater(a, b) ==
    IF a = <<>> THEN FALSE
    ELSE IF b = <<>> THEN TRUE
    ELSE IF Ord(Head(a)) # Ord(Head(b)) THEN Ord(Head(a)) > Ord(Head(b))
    ELSE StrGreater(Tail(a), Tail(b))

\* strings.IndexByte(s, c), as a 1-based position; 0 when c does not occur.
IndexByte(s, c) ==
    IF \E i \in 1..Len(s) : s[i] = c
    THEN CHOOSE i \in 1..Len(s) : s[i] = c /\ \A j \in 1..(i-1) : s[j] # c
    ELSE 0

\* strings.HasPrefix(s, p).
HasPrefix(s, p) == Len(s) >= Len(p) /\ SubSeq(s, 1, Len(p)) = p

\* The concatenation of a sequence of strings.
RECURSIVE Concat(_)
Concat(ss) == IF ss = <<>> THEN <<>> ELSE Head(ss) \o Concat(Tail(ss))

---------------------------------------------------------------------------
(* Errors                                                                  *)

NoErr == "nil"
ErrCriticalExtension == "ErrCriticalExtension"
ErrExperimentalExtension == "ErrExperimentalExtension"
ErrPrivateExtension == "ErrPrivateExtension"
ErrInvalidExtension == "ErrInvalidExtension"
ErrInvalidSuffix == "ErrInvalidSuffix"
ErrInvalidTimezone == "ErrInvalidTimezone"
ErrTimezoneOffsetMismatch == "ErrTimezoneOffsetMismatch"
\* errors.New("invalid extension format") of Abnf.Validate: the message of
\* ErrInvalidExtension, but another error value.
ErrAbnfMismatch == "abnf: invalid extension format"
\* The error of time.Parse.
ErrTimeParse == "time: cannot parse"
\* The error of time.LoadLocation.
ErrUnknownTimeZone == "time: unknown time zone"
\* errors.New("empty datetime string") of Validate.
ErrEmptyDatetime == "empty datetime string"

---------------------------------------------------------------------------
(* src/abnf/abnf.go: the patterns, as character-class scans                *)

TzInitial == Alpha \cup {"_"}

TzChar == Alpha \cup Digit \cup {".", "_", "+", "-"}

\* ^[A-Za-z_][A-Za-z._0-9+-]*(/[A-Za-z_][A-Za-z._0-9+-]*)*$
IsTimezoneNameSyntax(s) ==
    /\ Len(s) > 0
    /\ s[Len(s)] # "/"
    /\ \A i \in 1..Len(s) :
          IF i = 1 \/ s[i-1] = "/"
          THEN s[i] \in TzInitial
          ELSE s[i] \in TzChar \cup {"/"}

\* [+-][0-9]{2}:[0-9]{2}
IsOffsetSyntax(s) ==
    /\ Len(s) = 6
    /\ s[1] \in {"+", "-"}
    /\ s[2] \in Digit /\ s[3] \in Digit
    /\ s[4] = ":"
    /\ s[5] \in Digit /\ s[6] \in Digit

\* ^\[!?<name>\]$|^\[!?[+-][0-9]{2}:[0-9]{2}\]$
MatchTimezone(s) ==
    /\ Len(s) >= 2
    /\ s[1] = "[" /\ s[Len(s)] = "]"
    /\ LET inner == SubSeq(s, 2, Len(s) - 1)
           body  == IF inner # <<>> /\ inner[1] = "!" THEN Tail(inner) ELSE inner
       IN  IsTimezoneNameSyntax(body) \/ IsOffsetSyntax(body)

\* ^[a-z_][a-z_0-9-]*$
MatchSuffixKey(s) ==
    /\ Len(s) > 0
    /\ s[1] \in Lower \cup {"_"}
    /\ \A i \in 2..Len(s) : s[i] \in Lower \cup Digit \cup {"_", "-"}

\* ^[A-Za-z0-9]+(?:-[A-Za-z0-9]+)*$
MatchSuffixValues(s) ==
    /\ Len(s) > 0
    /\ \A i \in 1..Len(s) :
          IF i = 1 \/ s[i-1] = "-"
          THEN s[i] \in Alnum
          ELSE s[i] \in Alnum \cup {"-"}
    /\ s[Len(s)] # "-"

\* A key check that lets the reserved prefixes through (a fault C9 must
\* notice).
validateSuffixKeyOpen(key) == NoErr

\* validateSuffixKey: private-use and experimental keys are refused.
validateSuffixKey(key) ==
    IF Len(key) >= 2 /\ (SubSeq(key, 1, 2) = <<"x", "-">> \/ SubSeq(key, 1, 2) = <<"X", "-">>)
    THEN ErrPrivateExtension
    ELSE IF Len(key) >= 1 /\ key[1] = "_"
    THEN ErrExperimentalExtension
    ELSE NoErr

\* AbnfSuffixKey.Validate
AbnfSuffixKeyValidate(s) ==
    IF ~MatchSuffixKey(s) THEN ErrAbnfMismatch ELSE validateSuffixKey(s)

\* AbnfSuffixValues.Validate
AbnfSuffixValuesValidate(s) ==
    IF ~MatchSuffixValues(s) THEN ErrAbnfMismatch ELSE NoErr

\* AbnfTimezone.Validate
AbnfTimezoneValidate(s) ==
    IF ~MatchTimezone(s) THEN ErrAbnfMismatch ELSE NoErr

---------------------------------------------------------------------------
(* Package time, as ixdtf.go uses it.  A time.Time is its instant (seconds *)
(* from 2025-06-01T00:00:00Z), its fraction of a second (the digits after  *)
(* the point, trailing zeros dropped) and its location.  A location is a   *)
(* name and an offset in seconds east of UTC; the zones of the model keep  *)
(* one offset over the whole window.                                       *)

\* The calendar days of the window, in order; the middle one is day 0.
Dates == << <<"2","0","2","5","-","0","5","-","3","1">>,
            <<"2","0","2","5","-","0","6","-","0","1">>,
            <<"2","0","2","5","-","0","6","-","0","2">> >>

UTCName == <<"U","T","C">>
TokyoName == <<"A","s","i","a","/","T","o","k","y","o">>
ESTName == <<"E","S","T">>
EtcGMT9Name == <<"E","t","c","/","G","M","T","-","9">>
FooBarName == <<"F","o","o","/","B","a","r">>
EtcGMTPrefix == <<"E","t","c","/","G","M","T">>

\* The zone database time.LoadLocation reads: name -> offset in seconds.
ZoneDB == (TokyoName :> 32400) @@ (ESTName :> (0 - 18000)) @@ (EtcGMT9Name :> 32400)

NilLocation == [nil |-> TRUE, name |-> <<>>, off |-> 0]

\* time.FixedZone(name, offset)
FixedZone(name, offset) == [nil |-> FALSE, name |-> name, off |-> offset]

\* time.UTC
UTC == FixedZone(UTCName, 0)

\* A resolver that takes a name of the shape +HH:MM or -HH:MM for a zone
\* (a fault C16 must notice).
LoadLocationNumeric(name) ==
    IF name = <<>> \/ name = UTCName THEN [err |-> NoErr, loc |-> UTC]
    ELSE IF name \in DOMAIN ZoneDB THEN [err |-> NoErr, loc |-> FixedZone(name, ZoneDB[name])]
    ELSE IF IsOffsetSyntax(name) THEN [err |-> NoErr, loc |-> FixedZone(name, 0)]
    ELSE [err |-> ErrUnknownTimeZone, loc |-> NilLocation]

\* A resolver that knows every name (a fault C8 must notice).
LoadLocationAny(name) == [err |-> NoErr, loc |-> FixedZone(name, 0)]

\* time.LoadLocation(name): "" and "UTC" give time.UTC, a name of the
\* database gives its zone, any other name is an error.
LoadLocation(name) ==
    IF name = <<>> \/ name = UTCName THEN [err |-> NoErr, loc |-> UTC]
    ELSE IF name \in DOMAIN ZoneDB THEN [err |-> NoErr, loc |-> FixedZone(name, ZoneDB[name])]
    ELSE [err |-> ErrUnknownTimeZone, loc |-> NilLocation]

\* (*Location).String()
LocationString(loc) == loc.name

\* The zero time.Time, returned beside an error.
ZeroTime == [sec |-> 0, frac |-> <<>>, loc |-> UTC]

\* A conversion that keeps the wall clock and so moves the instant (a fault
\* C29 must notice).
TimeInWall(t, loc) == [t EXCEPT !.loc = loc, !.sec = t.sec + t.loc.off - loc.off]

\* Time.In(loc): the same instant, shown in loc.
TimeIn(t, loc) == [t EXCEPT !.loc = loc]

\* The offset part of Time.Zone().
ZoneOffset(t) == t.loc.off

\* Time.Equal
TimeEqual(t, u) == t.sec = u.sec /\ t.frac = u.frac

IsDigits(s) == \A i \in 1..Len(s) : s[i] \in Digit

\* The value of the two digits of p at i and i+1.
TwoDigits(p, i) == 10 * DigitVal(p[i]) + DigitVal(p[i+1])

\* n as two decimal digits (0 <= n <= 99).
Pad2(n) == <<DigitSeq[(n \div 10) + 1], DigitSeq[(n % 10) + 1]>>

\* s without its trailing "0" characters.
RECURSIVE TrimZeros(_)
TrimZeros(s) ==
    IF s # <<>> /\ s[Len(s)] = "0" THEN TrimZeros(SubSeq(s, 1, Len(s) - 1)) ELSE s

\* The length of the longest prefix of s made of digits.
DigitRun(s) ==
    IF \E i \in 1..Len(s) : s[i] \notin Digit
    THEN (CHOOSE i \in 1..Len(s) : s[i] \notin Digit /\ \A j \in 1..(i-1) : s[j] \in Digit) - 1
    ELSE Len(s)

\* The numeric zone of a timestamp, "Z" or [+-]hh:mm.
ParseZone(z) ==
    IF z = <<"Z">> THEN [ok |-> TRUE, loc |-> UTC]
    ELSE IF IsOffsetSyntax(z) /\ TwoDigits(z, 2) <= 24 /\ TwoDigits(z, 5) <= 60
    THEN LET secs == (TwoDigits(z, 2) * 60 + TwoDigits(z, 5)) * 60
         IN  [ok |-> TRUE, loc |-> FixedZone(<<>>, IF z[1] = "-" THEN 0 - secs ELSE secs)]
    ELSE [ok |-> FALSE, loc |-> NilLocation]

\* time.Parse(time.RFC3339Nano, p), and time.Parse(time.RFC3339, p), which
\* accepts the same strings: the date must be a day of the window.
TimeParse(p) ==
    LET bad == [err |-> ErrTimeParse, t |-> ZeroTime] IN
    IF Len(p) < 20 THEN bad
    ELSE
    LET date == SubSeq(p, 1, 10)
        rest == SubSeq(p, 20, Len(p))
        hasFrac == Len(rest) >= 2 /\ rest[1] \in {".", ","} /\ rest[2] \in Digit
        nfrac == IF hasFrac THEN DigitRun(Tail(rest)) ELSE 0
        frac == IF hasFrac THEN TrimZeros(SubSeq(rest, 2, 1 + nfrac)) ELSE <<>>
        zone == IF hasFrac THEN SubSeq(rest, 2 + nfrac, Len(rest)) ELSE rest
        z == ParseZone(zone)
    IN  IF /\ \E d \in 1..Len(Dates) : Dates[d] = date
           /\ p[11] = "T" /\ p[14] = ":" /\ p[17] = ":"
           /\ IsDigits(SubSeq(p, 12, 13)) /\ IsDigits(SubSeq(p, 15, 16))
           /\ IsDigits(SubSeq(p, 18, 19))
           /\ TwoDigits(p, 12) <= 23 /\ TwoDigits(p, 15) <= 59 /\ TwoDigits(p, 18) <= 59
           /\ z.ok
        THEN LET day == IndexIn(Dates, date) - 2
                 wall == day * 86400 + TwoDigits(p, 12) * 3600
                         + TwoDigits(p, 15) * 60 + TwoDigits(p, 18)
             IN  [err |-> NoErr,
                  t |-> [sec |-> wall - z.loc.off, frac |-> frac, loc |-> z.loc]]
        ELSE bad

\* Time.Format(time.RFC3339), and with nano Time.Format(time.RFC3339Nano):
\* the wall clock of the instant at the location's offset, then "Z" for a
\* zero offset and [+-]hh:mm otherwise.
TimeFormat(t, nano) ==
    LET off == ZoneOffset(t)
        local == t.sec + off
        day == local \div 86400
        sod == local % 86400
        abs == IF off < 0 THEN 0 - off ELSE off
    IN  Dates[day + 2]
        \o <<"T">> \o Pad2(sod \div 3600)
        \o <<":">> \o Pad2((sod % 3600) \div 60)
        \o <<":">> \o Pad2(sod % 60)
        \o (IF nano /\ t.frac # <<>> THEN <<".">> \o t.frac ELSE <<>>)
        \o (IF off = 0 THEN <<"Z">>
            ELSE <<(IF off < 0 THEN "-" ELSE "+")>>
                 \o Pad2(abs \div 3600) \o <<":">> \o Pad2((abs % 3600) \div 60))

\* AbnfTimezoneName.Validate: the pattern, then validateTimezoneName, which
\* checks the syntax again and loads the zone.
AbnfTimezoneNameValidate(s) ==
    IF ~IsTimezoneNameSyntax(s) THEN ErrAbnfMismatch ELSE LoadLocation(s).err

\* One bracket interior of AbnfDateTimeExt: empty, a zone reference
\* !?[A-Za-z._0-9+/:-]+ or a tag !?key=value.
MatchExtElement(c) ==
    LET body == IF c # <<>> /\ c[1] = "!" THEN Tail(c) ELSE c
        eq == IndexByte(body, "=")
    IN  \/ c = <<>>
        \/ /\ body # <<>>
           /\ \A i \in 1..Len(body) : body[i] \in Alnum \cup {".", "_", "+", "/", ":", "-"}
        \/ /\ eq > 0
           /\ MatchSuffixKey(SubSeq(body, 1, eq - 1))
           /\ MatchSuffixValues(SubSeq(body, eq + 1, Len(body)))

\* The (?:\[...\])*$ tail of AbnfDateTimeExt.
RECURSIVE MatchExtElements(_)
MatchExtElements(r) ==
    IF r = <<>> THEN TRUE
    ELSE LET close == IndexByte(r, "]") IN
         /\ r[1] = "["
         /\ close > 0
         /\ MatchExtElement(SubSeq(r, 2, close - 1))
         /\ MatchExtElements(SubSeq(r, close + 1, Len(r)))

\* AbnfDateTimeExt: the date-time of RFC 3339 followed by bracket elements.
MatchDateTimeExt(s) ==
    /\ Len(s) >= 20
    /\ IsDigits(SubSeq(s, 1, 4)) /\ s[5] = "-"
    /\ IsDigits(SubSeq(s, 6, 7)) /\ TwoDigits(s, 6) \in 1..12 /\ s[8] = "-"
    /\ IsDigits(SubSeq(s, 9, 10)) /\ TwoDigits(s, 9) \in 1..31 /\ s[11] = "T"
    /\ IsDigits(SubSeq(s, 12, 13)) /\ TwoDigits(s, 12) \in 0..23 /\ s[14] = ":"
    /\ IsDigits(SubSeq(s, 15, 16)) /\ s[17] = ":"
    /\ IsDigits(SubSeq(s, 18, 19))
    /\ LET rest == SubSeq(s, 20, Len(s))
           hasFrac == Len(rest) >= 2 /\ rest[1] = "." /\ rest[2] \in Digit
           after == IF hasFrac
                    THEN SubSeq(rest, 2 + DigitRun(Tail(rest)), Len(rest))
                    ELSE rest
       IN  \/ /\ after # <<>> /\ after[1] = "Z"
              /\ MatchExtElements(Tail(after))
           \/ /\ Len(after) >= 6 /\ IsOffsetSyntax(SubSeq(after, 1, 6))
              /\ MatchExtElements(SubSeq(after, 7, Len(after)))

\* AbnfDateTimeExt.Validate
AbnfDateTimeExtValidate(s) ==
    IF ~MatchDateTimeExt(s) THEN ErrAbnfMismatch ELSE NoErr

---------------------------------------------------------------------------
(* src/ixdtf.go                                                            *)

\* A Go map with no entry.
EmptyMap == [k \in {} |-> <<>>]

\* m[k] = v
MapPut(m, k, v) == [x \in DOMAIN m \cup {k} |-> IF x = k THEN v ELSE m[x]]

\* The orders in which a range loop may visit the keys of the map m.
RangeOrders(m) ==
    {q \in [1..Cardinality(DOMAIN m) -> DOMAIN m] :
        \A i, j \in 1..Cardinality(DOMAIN m) : i # j => q[i] # q[j]}

\* s[start:end] with Go's indices.
Slice(s, start, end) == SubSeq(s, start + 1, end)

\* A nil *IXDTFExtensions.
NilExtensions == [nil |-> TRUE, Location |-> NilLocation, Tags |-> EmptyMap, Critical |-> EmptyMap]

\* A nil *NewIXDTFExtensionsArgs.
NilArgs == [nil |-> TRUE, Location |-> NilLocation, Tags |-> EmptyMap, Critical |-> EmptyMap]

\* NewIXDTFExtensions: Location defaults to time.UTC, the maps to empty maps.
NewIXDTFExtensions(args) ==
    [nil |-> FALSE,
     Location |-> IF ~args.nil /\ ~args.Location.nil THEN args.Location ELSE UTC,
     Tags |-> IF ~args.nil THEN args.Tags ELSE EmptyMap,
     Critical |-> IF ~args.nil THEN args.Critical ELSE EmptyMap]

\* findRFC3339End: the index of the first "[", or len(s).
findRFC3339End(s) ==
    IF IndexByte(s, "[") = 0 THEN Len(s) ELSE IndexByte(s, "[") - 1

\* parseRFC3339Portion: time.RFC3339Nano, then time.RFC3339.
parseRFC3339Portion(p) == TimeParse(p)

isValidSuffixKeyRange(s, start, end) ==
    IF start >= end THEN ErrInvalidExtension
    ELSE AbnfSuffixKeyValidate(Slice(s, start, end))

isValidSuffixValue(value) ==
    IF value = <<>> THEN NoErr
    ELSE IF AbnfSuffixValuesValidate(value) # NoErr THEN AbnfSuffixValuesValidate(value)
    ELSE IF value[1] = "-" \/ value[Len(value)] = "-" THEN ErrInvalidExtension
    ELSE IF \E i \in 2..Len(value) : value[i] = "-" /\ value[i-1] = "-" THEN ErrInvalidExtension
    ELSE NoErr

isValidSuffixValueRange(s, start, end) ==
    IF start >= end THEN ErrInvalidExtension
    ELSE isValidSuffixValue(Slice(s, start, end))

\* A loop that lets a hyphen follow a hyphen (a fault C24 must notice).
RECURSIVE scanValueLax(_, _, _, _, _)
scanValueLax(s, i, end, prevHyphen, hasValidChar) ==
    IF i >= end THEN hasValidChar
    ELSE IF s[i + 1] = "-" THEN scanValueLax(s, i + 1, end, TRUE, FALSE)
    ELSE IF s[i + 1] \in Alnum THEN scanValueLax(s, i + 1, end, FALSE, TRUE)
    ELSE FALSE

\* The loop of the scanner of the first version of the package, from Go's
\* index i to end: no hyphen after a hyphen, and letters and digits only.
RECURSIVE scanValue(_, _, _, _, _)
scanValue(s, i, end, prevHyphen, hasValidChar) ==
    IF i >= end THEN hasValidChar
    ELSE IF s[i + 1] = "-"
    THEN IF prevHyphen THEN FALSE ELSE scanValue(s, i + 1, end, TRUE, FALSE)
    ELSE IF s[i + 1] \in Alnum THEN scanValue(s, i + 1, end, FALSE, TRUE)
    ELSE FALSE

\* isValidSuffixValue of the first version: the scanner written by hand.
isValidSuffixValueScan(value) ==
    IF Len(value) = 0 THEN FALSE
    ELSE IF value[1] = "-" \/ value[Len(value)] = "-" THEN FALSE
    ELSE scanValue(value, 0, Len(value), FALSE, FALSE)

\* isValidSuffixValueRange of the first version: the same scan over
\* s[start:end], without taking the substring.
isValidSuffixValueRangeScan(s, start, end) ==
    IF start >= end THEN FALSE
    ELSE IF s[start + 1] = "-" \/ s[end] = "-" THEN FALSE
    ELSE scanValue(s, start, end, FALSE, FALSE)

validateCriticalExtension(key, value) ==
    IF value = <<>> THEN ErrCriticalExtension ELSE NoErr

isValidTimezoneContent(s) ==
    IF s = <<>> THEN FALSE
    ELSE IF /\ IndexByte(s, "-") > 0
            /\ Len(s) >= 2 /\ s[2] = "-"
            /\ s[1] \in {"u", "x", "t"}
    THEN FALSE
    ELSE TRUE

\* A tag handler that drops a later duplicate before looking at its key and
\* value (a fault C23 must notice).
handleExtensionTagUnchecked(content, critical, startIdx, e) ==
    LET rel == IndexByte(Slice(content, startIdx, Len(content)), "=")
        equalIndex == (rel - 1) + startIdx
        key == Slice(content, startIdx, equalIndex)
        value == Slice(content, equalIndex + 1, Len(content))
    IN  IF rel = 0 THEN [ext |-> e, err |-> ErrInvalidExtension]
        ELSE IF equalIndex = startIdx \/ equalIndex = Len(content) - 1
        THEN [ext |-> e, err |-> ErrInvalidExtension]
        ELSE IF key \in DOMAIN e.Tags
        THEN [ext |-> e, err |-> NoErr]
        ELSE IF isValidSuffixKeyRange(content, startIdx, equalIndex) # NoErr
        THEN [ext |-> e, err |-> isValidSuffixKeyRange(content, startIdx, equalIndex)]
        ELSE IF isValidSuffixValueRange(content, equalIndex + 1, Len(content)) # NoErr
        THEN [ext |-> e, err |-> isValidSuffixValueRange(content, equalIndex + 1, Len(content))]
        ELSE [ext |-> [e EXCEPT !.Tags = MapPut(e.Tags, key, value),
                                !.Critical = IF critical
                                             THEN MapPut(e.Critical, key, TRUE)
                                             ELSE e.Critical],
              err |-> NoErr]

\* A tag handler that marks the key of a later duplicate critical when the
\* duplicate has "!" (a fault C25 must notice).
handleExtensionTagMarks(content, critical, startIdx, e) ==
    LET rel == IndexByte(Slice(content, startIdx, Len(content)), "=")
        equalIndex == (rel - 1) + startIdx
        key == Slice(content, startIdx, equalIndex)
        value == Slice(content, equalIndex + 1, Len(content))
        marked == IF critical THEN MapPut(e.Critical, key, TRUE) ELSE e.Critical
    IN  IF rel = 0 THEN [ext |-> e, err |-> ErrInvalidExtension]
        ELSE IF equalIndex = startIdx \/ equalIndex = Len(content) - 1
        THEN [ext |-> e, err |-> ErrInvalidExtension]
        ELSE IF isValidSuffixKeyRange(content, startIdx, equalIndex) # NoErr
        THEN [ext |-> e, err |-> isValidSuffixKeyRange(content, startIdx, equalIndex)]
        ELSE IF isValidSuffixValueRange(content, equalIndex + 1, Len(content)) # NoErr
        THEN [ext |-> e, err |-> isValidSuffixValueRange(content, equalIndex + 1, Len(content))]
        ELSE IF key \in DOMAIN e.Tags
        THEN [ext |-> [e EXCEPT !.Critical = marked], err |-> NoErr]
        ELSE [ext |-> [e EXCEPT !.Tags = MapPut(e.Tags, key, value), !.Critical = marked],
              err |-> NoErr]

\* handleExtensionTag: key and value are checked, then the first occurrence
\* of a key wins.  startIdx is Go's index of the first character of the key.
handleExtensionTag(content, critical, startIdx, e) ==
    LET rel == IndexByte(Slice(content, startIdx, Len(content)), "=")
        equalIndex == (rel - 1) + startIdx
        key == Slice(content, startIdx, equalIndex)
        value == Slice(content, equalIndex + 1, Len(content))
    IN  IF rel = 0 THEN [ext |-> e, err |-> ErrInvalidExtension]
        ELSE IF equalIndex = startIdx \/ equalIndex = Len(content) - 1
        THEN [ext |-> e, err |-> ErrInvalidExtension]
        ELSE IF isValidSuffixKeyRange(content, startIdx, equalIndex) # NoErr
        THEN [ext |-> e, err |-> isValidSuffixKeyRange(content, startIdx, equalIndex)]
        ELSE IF isValidSuffixValueRange(content, equalIndex + 1, Len(content)) # NoErr
        THEN [ext |-> e, err |-> isValidSuffixValueRange(content, equalIndex + 1, Len(content))]
        ELSE IF key \in DOMAIN e.Tags
        THEN [ext |-> e, err |-> NoErr]
        ELSE [ext |-> [e EXCEPT !.Tags = MapPut(e.Tags, key, value),
                                !.Critical = IF critical
                                             THEN MapPut(e.Critical, key, TRUE)
                                             ELSE e.Critical],
              err |-> NoErr]

\* An element parser that takes a zone with the critical marker (a fault
\* C14 must notice).
parseSuffixElementBang(content, e) ==
    IF content = <<>> THEN [ext |-> e, err |-> ErrInvalidSuffix]
    ELSE IF content[1] = "!" /\ Len(content) = 1 THEN [ext |-> e, err |-> ErrInvalidSuffix]
    ELSE
    LET critical == content[1] = "!"
        startIdx == IF critical THEN 1 ELSE 0
        tzContent == Slice(content, startIdx, Len(content))
    IN  IF IndexByte(tzContent, "=") > 0
        THEN handleExtensionTag(content, critical, startIdx, e)
        ELSE IF tzContent = <<>> THEN [ext |-> e, err |-> NoErr]
        ELSE IF /\ AbnfTimezoneNameValidate(tzContent) # NoErr
                /\ AbnfTimezoneValidate(<<"[">> \o tzContent \o <<"]">>) # NoErr
        THEN [ext |-> e, err |-> ErrInvalidExtension]
        ELSE IF ~isValidTimezoneContent(tzContent)
        THEN [ext |-> e, err |-> ErrInvalidExtension]
        ELSE [ext |-> [e EXCEPT !.Location = FixedZone(tzContent, 0)], err |-> NoErr]

\* An element parser that lets the empty element pass (a fault C15 must
\* notice).
parseSuffixElementEmpty(content, e) ==
    IF content = <<>> THEN [ext |-> e, err |-> NoErr]
    ELSE IF content[1] = "!" /\ Len(content) = 1 THEN [ext |-> e, err |-> ErrInvalidSuffix]
    ELSE
    LET critical == content[1] = "!"
        startIdx == IF critical THEN 1 ELSE 0
        tzContent == Slice(content, startIdx, Len(content))
    IN  IF IndexByte(tzContent, "=") > 0
        THEN handleExtensionTag(content, critical, startIdx, e)
        ELSE IF critical THEN [ext |-> e, err |-> ErrInvalidTimezone]
        ELSE IF tzContent = <<>> THEN [ext |-> e, err |-> NoErr]
        ELSE IF /\ AbnfTimezoneNameValidate(tzContent) # NoErr
                /\ AbnfTimezoneValidate(<<"[">> \o tzContent \o <<"]">>) # NoErr
        THEN [ext |-> e, err |-> ErrInvalidExtension]
        ELSE IF ~isValidTimezoneContent(tzContent)
        THEN [ext |-> e, err |-> ErrInvalidExtension]
        ELSE [ext |-> [e EXCEPT !.Location = FixedZone(tzContent, 0)], err |-> NoErr]

\* parseSuffixElement: one bracket interior, a tag (it has "=") or a zone.
parseSuffixElement(content, e) ==
    IF content = <<>> THEN [ext |-> e, err |-> ErrInvalidSuffix]
    ELSE IF content[1] = "!" /\ Len(content) = 1 THEN [ext |-> e, err |-> ErrInvalidSuffix]
    ELSE
    LET critical == content[1] = "!"
        startIdx == IF critical THEN 1 ELSE 0
        tzContent == Slice(content, startIdx, Len(content))
    IN  IF IndexByte(tzContent, "=") > 0
        THEN handleExtensionTag(content, critical, startIdx, e)
        ELSE IF critical THEN [ext |-> e, err |-> ErrInvalidTimezone]
        ELSE IF tzContent = <<>> THEN [ext |-> e, err |-> NoErr]
        ELSE IF /\ AbnfTimezoneNameValidate(tzContent) # NoErr
                /\ AbnfTimezoneValidate(<<"[">> \o tzContent \o <<"]">>) # NoErr
        THEN [ext |-> e, err |-> ErrInvalidExtension]
        ELSE IF ~isValidTimezoneContent(tzContent)
        THEN [ext |-> e, err |-> ErrInvalidExtension]
        ELSE [ext |-> [e EXCEPT !.Location = FixedZone(tzContent, 0)], err |-> NoErr]

\* The loop of parseSuffix from Go's index i on, with the extensions so far.
RECURSIVE parseSuffixFrom(_, _, _)
parseSuffixFrom(s, i, e) ==
    IF i >= Len(s) THEN [ext |-> e, err |-> NoErr]
    ELSE IF s[i + 1] # "[" THEN [ext |-> e, err |-> ErrInvalidSuffix]
    ELSE
    LET rel == IndexByte(Slice(s, i + 1, Len(s)), "]")
        j == IF rel = 0 THEN Len(s) ELSE i + rel
    IN  IF j >= Len(s) THEN [ext |-> e, err |-> ErrInvalidSuffix]
        ELSE LET r == parseSuffixElement(Slice(s, i + 1, j), e)
             IN  IF r.err # NoErr THEN r ELSE parseSuffixFrom(s, j + 1, r.ext)

parseSuffix(s) == parseSuffixFrom(s, 0, NewIXDTFExtensions(NilArgs))

\* A nil *TimezoneConsistencyResult.
NilResult == [nil |-> TRUE, Location |-> NilLocation, IsConsistent |-> FALSE,
              OriginalOffset |-> 0, ExpectedOffset |-> 0, Skipped |-> FALSE]

\* The check without the Etc/GMT branch (a fault C12 must notice).
checkTimezoneConsistencyNoSkip(timestamp, location, isStrict) ==
    LET result == [NilResult EXCEPT !.nil = FALSE, !.Location = location]
        loaded == LoadLocation(LocationString(location))
        loc == loaded.loc
        originalOffset == ZoneOffset(timestamp)
        expectedOffset == ZoneOffset(TimeIn(timestamp, loc))
        withLoc == [result EXCEPT !.Location = loc,
                                  !.OriginalOffset = originalOffset,
                                  !.ExpectedOffset = expectedOffset]
    IN  IF location.nil
        THEN [result |-> [result EXCEPT !.IsConsistent = TRUE], err |-> NoErr]
        ELSE IF loaded.err # NoErr
        THEN [result |-> result, err |-> loaded.err]
        ELSE IF isStrict /\ originalOffset # expectedOffset
        THEN [result |-> NilResult, err |-> ErrTimezoneOffsetMismatch]
        ELSE [result |-> [withLoc EXCEPT !.IsConsistent = (originalOffset = expectedOffset)],
              err |-> NoErr]

\* The check without its strict branch (a fault C5 must notice).
checkTimezoneConsistencyLax(timestamp, location, isStrict) ==
    LET result == [NilResult EXCEPT !.nil = FALSE, !.Location = location]
        loaded == LoadLocation(LocationString(location))
        loc == loaded.loc
        originalOffset == ZoneOffset(timestamp)
        expectedOffset == ZoneOffset(TimeIn(timestamp, loc))
        withLoc == [result EXCEPT !.Location = loc,
                                  !.OriginalOffset = originalOffset,
                                  !.ExpectedOffset = expectedOffset]
    IN  IF location.nil
        THEN [result |-> [result EXCEPT !.IsConsistent = TRUE], err |-> NoErr]
        ELSE IF loaded.err # NoErr
        THEN [result |-> result, err |-> loaded.err]
        ELSE IF HasPrefix(LocationString(loc), EtcGMTPrefix)
        THEN [result |-> [withLoc EXCEPT !.Skipped = TRUE, !.IsConsistent = TRUE],
              err |-> NoErr]
        ELSE [result |-> [withLoc EXCEPT !.IsConsistent = (originalOffset = expectedOffset)],
              err |-> NoErr]

\* The check that keeps a name it cannot load instead of returning the
\* resolver's error (a fault C7 must notice).
checkTimezoneConsistencyKeep(timestamp, location, isStrict) ==
    LET result == [NilResult EXCEPT !.nil = FALSE, !.Location = location]
        loaded == LoadLocation(LocationString(location))
        loc == loaded.loc
        originalOffset == ZoneOffset(timestamp)
        expectedOffset == ZoneOffset(TimeIn(timestamp, loc))
        withLoc == [result EXCEPT !.Location = loc,
                                  !.OriginalOffset = originalOffset,
                                  !.ExpectedOffset = expectedOffset]
    IN  IF location.nil
        THEN [result |-> [result EXCEPT !.IsConsistent = TRUE], err |-> NoErr]
        ELSE IF loaded.err # NoErr
        THEN [result |-> [result EXCEPT !.Location = NilLocation], err |-> NoErr]
        ELSE IF HasPrefix(LocationString(loc), EtcGMTPrefix)
        THEN [result |-> [withLoc EXCEPT !.Skipped = TRUE, !.IsConsistent = TRUE],
              err |-> NoErr]
        ELSE IF isStrict /\ originalOffset # expectedOffset
        THEN [result |-> NilResult, err |-> ErrTimezoneOffsetMismatch]
        ELSE [result |-> [withLoc EXCEPT !.IsConsistent = (originalOffset = expectedOffset)],
              err |-> NoErr]

\* checkTimezoneConsistency: the zone named by location is loaded and its
\* offset at the instant compared with the offset of the timestamp.
checkTimezoneConsistency(timestamp, location, isStrict) ==
    LET result == [NilResult EXCEPT !.nil = FALSE, !.Location = location]
        loaded == LoadLocation(LocationString(location))
        loc == loaded.loc
        originalOffset == ZoneOffset(timestamp)
        expectedOffset == ZoneOffset(TimeIn(timestamp, loc))
        withLoc == [result EXCEPT !.Location = loc,
                                  !.OriginalOffset = originalOffset,
                                  !.ExpectedOffset = expectedOffset]
    IN  IF location.nil
        THEN [result |-> [result EXCEPT !.IsConsistent = TRUE], err |-> NoErr]
        ELSE IF loaded.err # NoErr
        THEN [result |-> result, err |-> loaded.err]
        ELSE IF HasPrefix(LocationString(loc), EtcGMTPrefix)
        THEN [result |-> [withLoc EXCEPT !.Skipped = TRUE, !.IsConsistent = TRUE],
              err |-> NoErr]
        ELSE IF isStrict /\ originalOffset # expectedOffset
        THEN [result |-> NilResult, err |-> ErrTimezoneOffsetMismatch]
        ELSE [result |-> [withLoc EXCEPT !.IsConsistent = (originalOffset = expectedOffset)],
              err |-> NoErr]

LayoutRFC3339 == "LayoutRFC3339"
LayoutRFC3339Extended == "LayoutRFC3339Extended"
LayoutRFC3339NanoExtended == "LayoutRFC3339NanoExtended"
NoLayout == "none"

\* Parse: the time, the extensions, and the error with the layout of its
\* ParseError.
Parse(s, isStrict) ==
    LET rfc3339End == findRFC3339End(s)
        base == parseRFC3339Portion(Slice(s, 0, rfc3339End))
        suffix == IF rfc3339End < Len(s)
                  THEN parseSuffix(Slice(s, rfc3339End, Len(s)))
                  ELSE [ext |-> NewIXDTFExtensions(NilArgs), err |-> NoErr]
        check == checkTimezoneConsistency(base.t, suffix.ext.Location, isStrict)
        failed(layout, e) == [t |-> ZeroTime, ext |-> NilExtensions, err |-> e, layout |-> layout]
    IN  IF base.err # NoErr THEN failed(LayoutRFC3339, base.err)
        ELSE IF suffix.err # NoErr THEN failed(LayoutRFC3339Extended, suffix.err)
        ELSE IF suffix.ext.Location.nil
        THEN [t |-> base.t, ext |-> suffix.ext, err |-> NoErr, layout |-> NoLayout]
        ELSE IF check.err # NoErr THEN failed(LayoutRFC3339NanoExtended, check.err)
        ELSE [t |-> IF ~check.result.Location.nil
                    THEN TimeIn(base.t, check.result.Location)
                    ELSE base.t,
              ext |-> suffix.ext, err |-> NoErr, layout |-> NoLayout]

\* Validate: the same stages, with no extensions (and so no zone check) when
\* the input has no suffix, and the whole string matched against
\* AbnfDateTimeExt at the end.
Validate(s, isStrict) ==
    LET rfc3339End == findRFC3339End(s)
        rfc3339Portion == Slice(s, 0, rfc3339End)
        base == parseRFC3339Portion(rfc3339Portion)
        suffix == IF rfc3339End < Len(s)
                  THEN parseSuffix(Slice(s, rfc3339End, Len(s)))
                  ELSE [ext |-> NilExtensions, err |-> NoErr]
        check == checkTimezoneConsistency(base.t, suffix.ext.Location, isStrict)
    IN  IF rfc3339Portion = <<>> THEN [err |-> ErrEmptyDatetime, layout |-> LayoutRFC3339]
        ELSE IF base.err # NoErr THEN [err |-> base.err, layout |-> LayoutRFC3339]
        ELSE IF suffix.err # NoErr THEN [err |-> suffix.err, layout |-> LayoutRFC3339Extended]
        ELSE IF ~suffix.ext.nil /\ ~suffix.ext.Location.nil /\ check.err # NoErr
        THEN [err |-> check.err, layout |-> LayoutRFC3339NanoExtended]
        ELSE IF AbnfDateTimeExtValidate(s) # NoErr
        THEN [err |-> AbnfDateTimeExtValidate(s), layout |-> LayoutRFC3339Extended]
        ELSE [err |-> NoErr, layout |-> NoLayout]

\* An inner loop that leaves the keys as the range loop gave them (a fault
\* C4 must notice).
SortShiftNone(keys, j, key) == keys

\* The inner loop of the insertion sort of appendSuffix: the keys above key
\* move one place up (j is Go's index).
RECURSIVE SortShift(_, _, _)
SortShift(keys, j, key) ==
    IF j >= 0 /\ StrGreater(keys[j + 1], key)
    THEN SortShift([keys EXCEPT ![j + 2] = keys[j + 1]], j - 1, key)
    ELSE [keys EXCEPT ![j + 2] = key]

\* The outer loop of the insertion sort, from Go's index i on.
RECURSIVE SortFrom(_, _)
SortFrom(keys, i) ==
    IF i < Len(keys) THEN SortFrom(SortShift(keys, i - 1, keys[i + 1]), i + 1) ELSE keys

\* The sorted keys of appendSuffix; keys is the order in which the range
\* loop collected them.
SortKeys(keys) == SortFrom(keys, 1)

\* A tag written without the critical marker (a fault C28 must notice).
TagTextPlain(e, key) ==
    <<"[">> \o key \o <<"=">> \o e.Tags[key] \o <<"]">>

\* One tag of the suffix: [key=value], with "!" before a critical key.
TagText(e, key) ==
    <<"[">> \o (IF key \in DOMAIN e.Critical /\ e.Critical[key] THEN <<"!">> ELSE <<>>)
    \o key \o <<"=">> \o e.Tags[key] \o <<"]">>

RECURSIVE TagsText(_, _)
TagsText(e, keys) ==
    IF keys = <<>> THEN <<>> ELSE TagText(e, Head(keys)) \o TagsText(e, Tail(keys))

\* appendSuffix: the zone element when Location is not nil, then the tags in
\* sorted key order.
appendSuffix(b, e, keys) ==
    b \o (IF ~e.Location.nil THEN <<"[">> \o LocationString(e.Location) \o <<"]">> ELSE <<>>)
      \o TagsText(e, SortKeys(keys))

\* The loop over ext.Tags in validateExtensions, visiting keys in this
\* order: the first key AbnfSuffixKey refuses ends it.
RECURSIVE validateTagKeys(_)
validateTagKeys(keys) ==
    IF keys = <<>> THEN NoErr
    ELSE IF AbnfSuffixKeyValidate(Head(keys)) # NoErr THEN AbnfSuffixKeyValidate(Head(keys))
    ELSE validateTagKeys(Tail(keys))

\* A loop body that asks nothing of a critical key without a tag (a fault
\* C10 must notice).
validateCriticalKeyPresent(e, key) ==
    IF ~e.Critical[key] THEN NoErr
    ELSE IF key \notin DOMAIN e.Tags THEN NoErr
    ELSE validateCriticalExtension(key, e.Tags[key])

\* The body of the loop over ext.Critical in validateExtensions.
validateCriticalKey(e, key) ==
    IF ~e.Critical[key] THEN NoErr
    ELSE IF key \notin DOMAIN e.Tags THEN ErrCriticalExtension
    ELSE validateCriticalExtension(key, e.Tags[key])

\* The loop over ext.Critical, visiting keys in this order.
RECURSIVE validateCriticalKeys(_, _)
validateCriticalKeys(e, keys) ==
    IF keys = <<>> THEN NoErr
    ELSE IF validateCriticalKey(e, Head(keys)) # NoErr THEN validateCriticalKey(e, Head(keys))
    ELSE validateCriticalKeys(e, Tail(keys))

\* validateExtensions; tagOrder and critOrder are the orders in which its
\* two range loops visit the maps.
validateExtensions(e, tagOrder, critOrder) ==
    IF e.nil THEN NoErr
    ELSE IF ~e.Location.nil /\ LoadLocation(LocationString(e.Location)).err # NoErr
    THEN ErrInvalidTimezone
    ELSE IF validateTagKeys(tagOrder) # NoErr THEN validateTagKeys(tagOrder)
    ELSE validateCriticalKeys(e, critOrder)

\* What a call that dereferences a nil pointer ends with.
Panic == "panic: nil pointer dereference"

\* Format (nano = FALSE) and FormatNano (nano = TRUE).
Format(t, e, nano, tagOrder, critOrder, keys) ==
    IF validateExtensions(e, tagOrder, critOrder) # NoErr
    THEN [out |-> <<>>, err |-> validateExtensions(e, tagOrder, critOrder)]
    ELSE IF e.nil THEN [out |-> <<>>, err |-> Panic]
    ELSE [out |-> appendSuffix(TimeFormat(t, nano), e, keys), err |-> NoErr]

---------------------------------------------------------------------------
(* The inputs of the model                                                 *)

\* The longest suffix, in pieces (bracket elements or stray fragments).
MaxElems == 2

\* The most tags in an Extensions value built by a caller.
MaxTags == 2

Bracket(c) == <<"[">> \o c \o <<"]">>

Tag(k, v) == k \o <<"=">> \o v

Bang(c) == <<"!">> \o c

DateTime == <<"2","0","2","5","-","0","6","-","0","1","T","1","2",":","0","0",":","0","0">>

\* Base timestamps: UTC, an offset, a fraction of a second, a zero numeric
\* offset, and two strings time.Parse refuses (no seconds; nothing at all).
Bases == { DateTime \o <<"Z">>,
           DateTime \o <<"+","0","9",":","0","0">>,
           DateTime \o <<".","5","Z">>,
           DateTime \o <<"+","0","0",":","0","0">>,
           <<"2","0","2","5","-","0","6","-","0","1","T","1","2",":","0","0","Z">>,
           <<>> }

KeyA == <<"a">>
KeyB == <<"b">>
KeyPrivate == <<"x","-","a">>
KeyPrivateUpper == <<"X","-","a">>
KeyExperimental == <<"_","a">>
KeyUpper == <<"A">>

\* Bracket interiors without "=": zone names the database knows, one it does
\* not, a numeric offset, and a name that looks like a tag key.
ZoneTexts == { UTCName, TokyoName, ESTName, EtcGMT9Name, FooBarName,
               <<"+","0","9",":","0","0">>, <<"+","2","4",":","0","0">>,
               <<"+","0","9",":","6","1">>, <<"u","-","c","a">> }

\* Bracket interiors with "=".
TagTexts == { Tag(KeyA, <<"1">>), Tag(KeyA, <<"2">>), Tag(KeyB, <<"1">>),
              Tag(KeyPrivate, <<"1">>), Tag(KeyPrivateUpper, <<"1">>),
              Tag(KeyExperimental, <<"1">>), Tag(KeyUpper, <<"1">>),
              Tag(KeyA, <<>>), Tag(<<>>, <<"1">>),
              Tag(KeyA, <<"-","1">>), Tag(KeyA, <<"1","-","-","2">>),
              Tag(KeyA, <<"1","-","2">>) }

\* The same with the critical marker.
CriticalTexts == { Bang(UTCName), Bang(Tag(KeyA, <<"2">>)), Bang(Tag(KeyB, <<"1">>)),
                   Bang(Tag(KeyPrivate, <<"1">>)), Bang(Tag(KeyExperimental, <<"1">>)),
                   <<"!">> }

\* The pieces a suffix is made of: bracket elements, the empty bracket pair,
\* an unclosed bracket and a stray character.
Pieces == {Bracket(c) : c \in ZoneTexts \cup TagTexts \cup CriticalTexts \cup {<<>>}}
          \cup { <<"[">>, <<"x">> }

PieceSeqs == UNION {[1..n -> Pieces] : n \in 0..MaxElems}

\* What a caller puts into an Extensions value: no location, time.UTC, a zone
\* of the database, a zone outside it, and a zone with the empty name.
CallerLocations == { NilLocation, UTC, FixedZone(TokyoName, 32400),
                     FixedZone(FooBarName, 3600), FixedZone(<<>>, 0) }

CallerKeys == { KeyA, KeyB, KeyPrivate, KeyExperimental, KeyUpper }

CallerValues == { <<"1">>, <<>>, <<"-","1">> }

CallerTagMaps ==
    UNION {[ks -> CallerValues] : ks \in {x \in SUBSET CallerKeys : Cardinality(x) <= MaxTags}}

CallerCriticalMaps == UNION {[ks -> BOOLEAN] : ks \in SUBSET {KeyA, KeyB}}

CallerArgs ==
    {NilArgs} \cup
    {[nil |-> FALSE, Location |-> l, Tags |-> t, Critical |-> c] :
        l \in CallerLocations, t \in CallerTagMaps, c \in CallerCriticalMaps}

\* The Extensions values of a caller: made by NewIXDTFExtensions, written as
\* a struct literal without Location, or a nil pointer.
CallerExts ==
    {NewIXDTFExtensions(a) : a \in CallerArgs}
    \cup {[nil |-> FALSE, Location |-> NilLocation, Tags |-> t, Critical |-> c] :
            t \in CallerTagMaps, c \in CallerCriticalMaps}
    \cup {NilExtensions}

\* The times of a caller: noon and a half in UTC, and 21:00 in Tokyo.
CallerTimes == { [sec |-> 43200, frac |-> <<"5">>, loc |-> UTC],
                 [sec |-> 43200, frac |-> <<>>, loc |-> FixedZone(TokyoName, 32400)] }

\* The longest string handed to the value predicates.
MaxValueLen == 4

\* A lower-case letter, an upper-case letter, a digit, the hyphen, and a
\* character no value may hold.
ValueChars == {"a", "A", "1", "-", "_"}

ValueStrings == UNION {[1..n -> ValueChars] : n \in 0..MaxValueLen}

\* What stands before and after a value in the string a range is taken of.
Affixes == { <<>>, <<"=">>, <<"-">>, <<"a">> }

\* The calls that resolve a zone in parallel.
MaxCalls == 2

Callers == 1..MaxCalls

\* The names they resolve: two zones of the database and a name outside it.
LookupNames == { TokyoName, ESTName, FooBarName }

\* A call that is not resolving a zone.
IdleCall == [pc |-> "idle", name |-> <<>>, loc |-> NilLocation, err |-> NoErr, hit |-> FALSE]

---------------------------------------------------------------------------
(* The calls                                                               *)

Init ==
    /\ op = "idle"
    /\ input = <<>>
    /\ strict = FALSE
    /\ tm = ZeroTime
    /\ ext = NilExtensions
    /\ origin = "none"
    /\ keyOrder = <<>>
    /\ err = NoErr
    /\ output = <<>>
    /\ cache = EmptyMap
    /\ calls = [w \in Callers |-> IdleCall]

\* t, ext, err := Parse(s, strict)
ParseCall ==
    /\ op = "idle"
    /\ \E b \in Bases, ps \in PieceSeqs, st \in BOOLEAN :
        LET s == b \o Concat(ps)
            r == Parse(s, st)
        IN  /\ op' = "Parse"
            /\ input' = s
            /\ strict' = st
            /\ tm' = r.t
            /\ ext' = r.ext
            /\ origin' = IF r.err = NoErr THEN "parsed" ELSE "none"
            /\ keyOrder' = <<>>
            /\ err' = r.err
            /\ output' = <<>>
    /\ UNCHANGED zoneVars

\* err := Validate(s, strict)
ValidateCall ==
    /\ op = "idle"
    /\ \E b \in Bases, ps \in PieceSeqs, st \in BOOLEAN :
        LET s == b \o Concat(ps)
            r == Validate(s, st)
        IN  /\ op' = "Validate"
            /\ input' = s
            /\ strict' = st
            /\ tm' = ZeroTime
            /\ ext' = NilExtensions
            /\ origin' = "none"
            /\ keyOrder' = <<>>
            /\ err' = r.err
            /\ output' = <<>>
    /\ UNCHANGED zoneVars

\* out, err := Format(t, ext), or FormatNano(t, ext), with the time and the
\* extensions Parse has just returned.
FormatParsed ==
    /\ op = "Parse"
    /\ err = NoErr
    /\ \E nano \in BOOLEAN, tagOrder \in RangeOrders(ext.Tags),
          critOrder \in RangeOrders(ext.Critical), keys \in RangeOrders(ext.Tags) :
          LET r == Format(tm, ext, nano, tagOrder, critOrder, keys)
          IN  /\ op' = IF nano THEN "FormatNano" ELSE "Format"
              /\ keyOrder' = IF r.err = NoErr THEN keys ELSE <<>>
              /\ output' = r.out
              /\ err' = r.err
    /\ UNCHANGED <<input, strict, tm, ext, origin>>
    /\ UNCHANGED zoneVars

\* out, err := Format(t, ext), or FormatNano(t, ext), with a time and an
\* Extensions value the caller has built.
FormatCall ==
    /\ op = "idle"
    /\ \E t \in CallerTimes, e \in CallerExts, nano \in BOOLEAN :
       \E tagOrder \in RangeOrders(e.Tags), critOrder \in RangeOrders(e.Critical),
          keys \in RangeOrders(e.Tags) :
          LET r == Format(t, e, nano, tagOrder, critOrder, keys)
          IN  /\ op' = IF nano THEN "FormatNano" ELSE "Format"
              /\ tm' = t
              /\ ext' = e
              /\ origin' = "built"
              /\ keyOrder' = IF r.err = NoErr THEN keys ELSE <<>>
              /\ output' = r.out
              /\ err' = r.err
    /\ UNCHANGED <<input, strict>>
    /\ UNCHANGED zoneVars

\* The caller is done with the results; the next call is independent.
Return ==
    /\ op # "idle"
    /\ op' = "idle"
    /\ input' = <<>>
    /\ strict' = FALSE
    /\ tm' = ZeroTime
    /\ ext' = NilExtensions
    /\ origin' = "none"
    /\ keyOrder' = <<>>
    /\ err' = NoErr
    /\ output' = <<>>
    /\ UNCHANGED zoneVars

Next == ParseCall \/ ValidateCall \/ FormatParsed \/ FormatCall \/ Return

Spec == Init /\ [][Next]_vars

\* The value predicates called on their own.  input is the value (for the
\* range variants the part s[start:end] of the string they are handed), and
\* err what the call returns; a predicate of the first version returns a
\* bool, and err is ErrInvalidExtension for false, as its caller
\* parseSuffixElement reports it.

\* isValidSuffixValue(value), first version
ScanValueCall ==
    /\ op = "idle"
    /\ \E v \in ValueStrings :
        /\ op' = "isValidSuffixValue (scanner)"
        /\ input' = v
        /\ err' = IF isValidSuffixValueScan(v) THEN NoErr ELSE ErrInvalidExtension
    /\ UNCHANGED <<strict, tm, ext, origin, keyOrder, output>>
    /\ UNCHANGED zoneVars

\* isValidSuffixValueRange(s, start, end), first version
ScanValueRangeCall ==
    /\ op = "idle"
    /\ \E v \in ValueStrings, pre \in Affixes, post \in Affixes :
        /\ op' = "isValidSuffixValueRange (scanner)"
        /\ input' = v
        /\ err' = IF isValidSuffixValueRangeScan(pre \o v \o post, Len(pre), Len(pre) + Len(v))
                  THEN NoErr ELSE ErrInvalidExtension
    /\ UNCHANGED <<strict, tm, ext, origin, keyOrder, output>>
    /\ UNCHANGED zoneVars

\* AbnfSuffixValues.Validate(value)
AbnfSuffixValuesCall ==
    /\ op = "idle"
    /\ \E v \in ValueStrings :
        /\ op' = "AbnfSuffixValues.Validate"
        /\ input' = v
        /\ err' = AbnfSuffixValuesValidate(v)
    /\ UNCHANGED <<strict, tm, ext, origin, keyOrder, output>>
    /\ UNCHANGED zoneVars

\* isValidSuffixValue(value)
ValueCall ==
    /\ op = "idle"
    /\ \E v \in ValueStrings :
        /\ op' = "isValidSuffixValue"
        /\ input' = v
        /\ err' = isValidSuffixValue(v)
    /\ UNCHANGED <<strict, tm, ext, origin, keyOrder, output>>
    /\ UNCHANGED zoneVars

\* isValidSuffixValueRange(s, start, end)
ValueRangeCall ==
    /\ op = "idle"
    /\ \E v \in ValueStrings, pre \in Affixes, post \in Affixes :
        /\ op' = "isValidSuffixValueRange"
        /\ input' = v
        /\ err' = isValidSuffixValueRange(pre \o v \o post, Len(pre), Len(pre) + Len(v))
    /\ UNCHANGED <<strict, tm, ext, origin, keyOrder, output>>
    /\ UNCHANGED zoneVars

NextValue ==
    ScanValueCall \/ ScanValueRangeCall \/ AbnfSuffixValuesCall \/ ValueCall
    \/ ValueRangeCall \/ Return

SpecValue == Init /\ [][NextValue]_vars

\* The zone cache.  A call that needs the rules of a zone name looks the name
\* up in the cache, on a miss has the zone database resolve it, and puts a
\* successful resolution into the cache.  The look-up and the store are each
\* one step on the shared map; the calls take their steps in any order.

\* A cache that also keeps what a failed resolution left (a fault C27 must
\* notice).
cacheStoreAlways(c, name, r) == MapPut(c, name, r.loc)

\* The cache after the resolution r of name: populated on a successful
\* resolution only.
cacheStore(c, name, r) ==
    IF r.err = NoErr THEN MapPut(c, name, r.loc) ELSE c

\* A Parse or Format call starts resolving a zone name.
ResolveBegin(w) ==
    /\ calls[w].pc = "idle"
    /\ \E n \in LookupNames :
          calls' = [calls EXCEPT ![w] = [IdleCall EXCEPT !.pc = "lookup", !.name = n]]
    /\ UNCHANGED cache
    /\ UNCHANGED callVars

\* The cache is consulted: a hit ends the lookup with the cached rules.
CacheLookup(w) ==
    /\ calls[w].pc = "lookup"
    /\ calls' = [calls EXCEPT ![w] =
                    IF calls[w].name \in DOMAIN cache
                    THEN [@ EXCEPT !.pc = "done", !.loc = cache[calls[w].name], !.hit = TRUE]
                    ELSE [@ EXCEPT !.pc = "load"]]
    /\ UNCHANGED cache
    /\ UNCHANGED callVars

\* On a miss the zone database resolves the name.
ZoneLoad(w) ==
    /\ calls[w].pc = "load"
    /\ LET r == LoadLocation(calls[w].name)
       IN  calls' = [calls EXCEPT ![w] = [@ EXCEPT !.pc = "store", !.loc = r.loc, !.err = r.err]]
    /\ UNCHANGED cache
    /\ UNCHANGED callVars

\* The resolution is put into the cache, and the lookup ends.
CacheStore(w) ==
    /\ calls[w].pc = "store"
    /\ cache' = cacheStore(cache, calls[w].name, [err |-> calls[w].err, loc |-> calls[w].loc])
    /\ calls' = [calls EXCEPT ![w] = [@ EXCEPT !.pc = "done"]]
    /\ UNCHANGED callVars

\* The call takes its result and returns.
ResolveEnd(w) ==
    /\ calls[w].pc = "done"
    /\ calls' = [calls EXCEPT ![w] = IdleCall]
    /\ UNCHANGED cache
    /\ UNCHANGED callVars

NextCache ==
    \E w \in Callers :
        ResolveBegin(w) \/ CacheLookup(w) \/ ZoneLoad(w) \/ CacheStore(w) \/ ResolveEnd(w)

SpecCache == Init /\ [][NextCache]_vars

---------------------------------------------------------------------------
(* The properties.  Each is stated over the state one call has left: op is *)
(* the call, input and strict its arguments, tm, ext, err and output its   *)
(* results.                                                                *)

\* The base timestamps time.Parse accepts.
ValidBases == {b \in Bases : TimeParse(b).err = NoErr}

\* The numeric offset of a base timestamp, in seconds.
BaseOffset(b) == ZoneOffset(TimeParse(b).t)

\* The offset of the zone called z, in seconds.
ZoneOffsetAt(z) == LoadLocation(z).loc.off

\* The well-formed tags of the inputs: the marker, the key and the value.
GoodTags ==
    { [critical |-> FALSE, key |-> KeyA, value |-> <<"1">>],
      [critical |-> FALSE, key |-> KeyA, value |-> <<"2">>],
      [critical |-> FALSE, key |-> KeyB, value |-> <<"1">>],
      [critical |-> FALSE, key |-> KeyA, value |-> <<"1","-","2">>],
      [critical |-> TRUE, key |-> KeyA, value |-> <<"2">>],
      [critical |-> TRUE, key |-> KeyB, value |-> <<"1">>] }

ElemText(g) == Bracket((IF g.critical THEN <<"!">> ELSE <<>>) \o Tag(g.key, g.value))

\* What may follow an element without spoiling the input: nothing, or one
\* well-formed tag.
GoodRests == {<<>>} \cup {ElemText(g) : g \in GoodTags}

Contains(s, part) ==
    \E i \in 1..(Len(s) - Len(part) + 1) : SubSeq(s, i, i + Len(part) - 1) = part

IsCritical(e, k) == k \in DOMAIN e.Critical /\ e.Critical[k]

Formatting == op \in {"Format", "FormatNano"}

\* C1 (round trip): whenever Parse(s, strict = true) has returned (t, ext)
\* without error, Format(t, ext) returns no error and exactly s, character
\* for character.
C1_RoundTrip ==
    (op = "Format" /\ origin = "parsed" /\ strict) => (err = NoErr /\ output = input)

\* C2 (backward compatibility): a valid base timestamp with no suffix makes
\* Parse and Validate succeed in both modes, whatever its numeric offset, and
\* the Extensions of Parse has no tag and no critical key.
C2_BackwardCompatible ==
    (op \in {"Parse", "Validate"} /\ input \in ValidBases)
        => /\ err = NoErr
           /\ op = "Parse" => (~ext.nil /\ DOMAIN ext.Tags = {} /\ DOMAIN ext.Critical = {})

\* C3 (first wins): a suffix of two well-formed tags with the same key makes
\* Parse succeed, tags[key] is the value of the first, the second is dropped
\* without error, and the key is critical exactly when the first had "!".
C3_FirstWins ==
    \A b \in ValidBases, g, h \in GoodTags :
        (op = "Parse" /\ g.key = h.key /\ input = b \o ElemText(g) \o ElemText(h))
            => /\ err = NoErr
               /\ DOMAIN ext.Tags = {g.key}
               /\ ext.Tags[g.key] = g.value
               /\ IsCritical(ext, g.key) <=> g.critical

\* Keys in ascending order, each once.
Ascending(ks) == \A i \in 1..(Len(ks) - 1) : StrGreater(ks[i + 1], ks[i])

C5_StrictMismatch ==
    \A b \in ValidBases, z \in {UTCName, TokyoName, ESTName}, r \in GoodRests :
        (op \in {"Parse", "Validate"} /\ strict /\ input = b \o Bracket(z) \o r)
            => IF BaseOffset(b) # ZoneOffsetAt(z)
               THEN err = ErrTimezoneOffsetMismatch
               ELSE err = NoErr

\* Validate refuses +09:00 with [EST] in strict mode.
C5_Witness ==
    /\ op = "Validate" /\ strict
    /\ input = DateTime \o <<"+","0","9",":","0","0">> \o Bracket(ESTName)
    /\ err = ErrTimezoneOffsetMismatch

\* C6 (non-strict mismatch): in non-strict mode, with a zone element whose
\* zone has another offset than the base timestamp, Parse succeeds, the time
\* it returns keeps the numeric offset of the base timestamp, and the
\* Extensions records the zone name.
C6_NonStrictMismatch ==
    \A b \in ValidBases, z \in {UTCName, TokyoName, ESTName, EtcGMT9Name} :
        (op = "Parse" /\ ~strict /\ input = b \o Bracket(z) /\ BaseOffset(b) # ZoneOffsetAt(z))
            => /\ err = NoErr
               /\ ZoneOffset(tm) = BaseOffset(b)
               /\ LocationString(ext.Location) = z

KnownZoneElems == {Bracket(z) : z \in {UTCName, TokyoName, ESTName, EtcGMT9Name}}

PrivateTags == { Tag(KeyPrivate, <<"1">>), Bang(Tag(KeyPrivate, <<"1">>)) }

ExperimentalTags == { Tag(KeyExperimental, <<"1">>), Bang(Tag(KeyExperimental, <<"1">>)) }

ReservedTags == PrivateTags \cup ExperimentalTags \cup { Tag(KeyPrivateUpper, <<"1">>) }

ReservedKey(k) ==
    \/ HasPrefix(k, <<"x","-">>)
    \/ HasPrefix(k, <<"X","-">>)
    \/ HasPrefix(k, <<"_">>)

CriticalUnmet(e) ==
    \E k \in DOMAIN e.Critical : e.Critical[k] /\ (k \notin DOMAIN e.Tags \/ e.Tags[k] = <<>>)

\* C10 as the specification has it: Format and FormatNano return
\* ErrCriticalExtension and no string whenever a key with Critical[key] =
\* true is missing from Tags or has the empty value.
C10_CriticalError ==
    (Formatting /\ ~ext.nil /\ CriticalUnmet(ext))
        => (err = ErrCriticalExtension /\ output = <<>>)

\* C10 as the code has it: with such a key Format and FormatNano return an
\* error and no string; the error is ErrCriticalExtension when the Location
\* can be resolved and every tag key is a plain key, for those two are looked
\* at first; and ErrCriticalExtension is returned for nothing else, so an
\* entry Critical[key] = false asks for nothing.
C10_CriticalEnforced ==
    (Formatting /\ ~ext.nil) =>
        /\ CriticalUnmet(ext) => (err # NoErr /\ output = <<>>)
        /\ ( /\ CriticalUnmet(ext)
             /\ (ext.Location.nil \/ LocationString(ext.Location) \in {<<>>, UTCName, TokyoName})
             /\ DOMAIN ext.Tags \subseteq {KeyA, KeyB} )
           => err = ErrCriticalExtension
        /\ err = ErrCriticalExtension => CriticalUnmet(ext)

\* FormatNano refuses b, critical without a tag, beside a = false.
C10_Witness ==
    /\ op = "FormatNano" /\ err = ErrCriticalExtension
    /\ IsCritical(ext, KeyB) /\ KeyB \notin DOMAIN ext.Tags
    /\ KeyA \in DOMAIN ext.Critical /\ ~ext.Critical[KeyA]

\* The value of a tag is outside the value grammar.
BadValue(v) ==
    \/ v = <<>>
    \/ \E i \in 1..Len(v) : v[i] \notin Alnum \cup {"-"}
    \/ v[1] = "-"
    \/ v[Len(v)] = "-"
    \/ \E i \in 2..Len(v) : v[i] = "-" /\ v[i - 1] = "-"

\* The Extensions value breaks a rule Parse enforces.
BreaksParseRule(e) ==
    \/ \E k \in DOMAIN e.Tags : k \in {KeyUpper, KeyPrivate, KeyExperimental}
    \/ \E k \in DOMAIN e.Tags : BadValue(e.Tags[k])
    \/ ~e.Location.nil /\ LocationString(e.Location) = FooBarName

\* C11 (Format refuses what Parse refuses): Format and FormatNano return an
\* error and no string for every Extensions value with a tag key outside the
\* key grammar, a key with the x- or _ prefix, a tag value outside the value
\* grammar, or a zone name the resolver does not know.
C11_FormatRefusesInvalid ==
    (Formatting /\ ~ext.nil /\ BreaksParseRule(ext)) => (err # NoErr /\ output = <<>>)

\* The zone element [zone] is in s, and no element naming a known zone comes
\* after it.
LastZoneIs(s, zone) ==
    \E i \in 1..(Len(s) - Len(zone) - 1) :
        /\ s[i] = "["
        /\ SubSeq(s, i, i + Len(zone) + 1) = Bracket(zone)
        /\ \A e \in KnownZoneElems : ~Contains(SubSeq(s, i + Len(zone) + 2, Len(s)), e)

\* C12 (Etc/GMT): with a zone element naming a zone of the Etc/GMT family
\* that resolves, Parse and Validate report no offset mismatch, in strict
\* and in non-strict mode, whatever the numeric offset of the base
\* timestamp; with nothing else at fault they succeed.
C12_EtcGMTException ==
    /\ (op \in {"Parse", "Validate"} /\ LastZoneIs(input, EtcGMT9Name))
          => err # ErrTimezoneOffsetMismatch
    /\ \A b \in ValidBases, r \in GoodRests :
          (op \in {"Parse", "Validate"} /\ input = b \o Bracket(EtcGMT9Name) \o r)
              => err = NoErr

\* Parse in strict mode, Z and [Etc/GMT-9], nine hours apart.
C12_Witness ==
    /\ op = "Parse" /\ strict
    /\ input = DateTime \o <<"Z">> \o Bracket(EtcGMT9Name)
    /\ err = NoErr

\* C13 (at most one zone): a suffix with two zone elements makes Parse and
\* Validate fail in both modes.
C13_AtMostOneZone ==
    \A b \in ValidBases, z1, z2 \in {UTCName, TokyoName, ESTName, EtcGMT9Name} :
        (op \in {"Parse", "Validate"} /\ input = b \o Bracket(z1) \o Bracket(z2))
            => err # NoErr

\* C14 (critical zone): an element with "!" and without "=" makes Parse and
\* Validate fail in both modes, also when the zone is known and agrees with
\* the base timestamp; the error is ErrInvalidTimezone when nothing before
\* the element is at fault.
C14_CriticalZoneRefused ==
    /\ (op \in {"Parse", "Validate"} /\ Contains(input, Bracket(Bang(UTCName))))
          => err # NoErr
    /\ \A b \in ValidBases, r \in GoodRests \cup KnownZoneElems :
          (op \in {"Parse", "Validate"} /\ HasPrefix(input, b \o r \o Bracket(Bang(UTCName))))
              => err = ErrInvalidTimezone

\* Parse in strict mode, Z and [!UTC].
C14_Witness ==
    /\ op = "Parse" /\ strict
    /\ input = DateTime \o <<"Z">> \o Bracket(Bang(UTCName))
    /\ err = ErrInvalidTimezone

\* C15 (empty brackets): an input with [] in its suffix makes Parse and
\* Validate fail in both modes; the error is ErrInvalidSuffix when the pair
\* comes directly after the base timestamp or after valid elements.
C15_EmptyBracketRefused ==
    /\ (op \in {"Parse", "Validate"} /\ Contains(input, <<"[", "]">>)) => err # NoErr
    /\ \A b \in ValidBases, r \in GoodRests \cup KnownZoneElems :
          (op \in {"Parse", "Validate"} /\ HasPrefix(input, b \o r \o <<"[", "]">>))
              => err = ErrInvalidSuffix

\* Validate in non-strict mode, a well-formed tag and then [].
C15_Witness ==
    /\ op = "Validate" /\ ~strict
    /\ input = DateTime \o <<"Z">> \o Bracket(Tag(KeyA, <<"1">>)) \o <<"[", "]">>
    /\ err = ErrInvalidSuffix

\* Signed offsets with hours above 23, or minutes above 59.
BadOffsets == { <<"+","2","4",":","0","0">>, <<"+","0","9",":","6","1">> }

C17_NumericOffsetAccepted ==
    (op = "Parse" /\ input = DateTime \o <<"+","0","9",":","0","0">>
                               \o Bracket(<<"+","0","9",":","0","0">>))
        => /\ err = NoErr
           /\ ext.Location = FixedZone(<<"+","0","9","0","0">>, 32400)

\* The stage an error comes from; the two errors of the base timestamp are
\* one category.
Category(e) == IF e \in {ErrTimeParse, ErrEmptyDatetime} THEN "base" ELSE e

\* C18 (Validate agrees with Parse): on every input and in every mode,
\* Validate returns an error exactly when Parse does, of the same category.
C18_ValidateAgrees ==
    (op = "Parse") => Category(Validate(input, strict).err) = Category(err)

\* C19 (strict only concerns zones): an input without zone element has the
\* same outcome from Parse in strict and in non-strict mode: the same error
\* category, the same tags, the same critical keys.
C19_StrictOnlyZones ==
    \A b \in Bases, r1, r2 \in GoodRests :
        (op = "Parse" /\ strict /\ input = b \o r1 \o r2)
            => /\ Category(err) = Category(Parse(input, FALSE).err)
               /\ ext.Tags = Parse(input, FALSE).ext.Tags
               /\ ext.Critical = Parse(input, FALSE).ext.Critical
               /\ err # ErrTimezoneOffsetMismatch

\* C20 (no empty zone bracket): with a Location of the empty name Format
\* writes the base timestamp and the tags only, and no output of Format has
\* the pair [] in it.
C20_NoEmptyZoneBracket ==
    (Formatting /\ err = NoErr) =>
        /\ ~Contains(output, <<"[", "]">>)
        /\ (~ext.Location.nil /\ LocationString(ext.Location) = <<>>)
              => output = appendSuffix(TimeFormat(tm, op = "FormatNano"),
                                       [ext EXCEPT !.Location = NilLocation], keyOrder)

\* The suffix of the input: what Parse and Validate hand to parseSuffix.
SuffixOf(s) == Slice(s, findRFC3339End(s), Len(s))

\* The base timestamp of the input.
BaseOf(s) == Slice(s, 0, findRFC3339End(s))

\* The bracket structure of a suffix, read off the grammar: each element
\* begins with "[" and has its "]" before the next "[" and before the end.
\* ok tells whether the whole suffix has that structure; elems are the
\* interiors of the elements before the first place that has not.
RECURSIVE Brackets(_, _)
Brackets(s, elems) ==
    IF s = <<>> THEN [ok |-> TRUE, elems |-> elems]
    ELSE LET close == IndexByte(s, "]")
             open == IndexByte(Tail(s), "[")
         IN  IF s[1] # "[" \/ close = 0 \/ (open > 0 /\ open + 1 < close)
             THEN [ok |-> FALSE, elems |-> elems]
             ELSE Brackets(SubSeq(s, close + 1, Len(s)),
                           Append(elems, SubSeq(s, 2, close - 1)))

\* The classifier applied to the interiors one by one, in order, until one
\* is refused.
RECURSIVE ClassifyAll(_, _)
ClassifyAll(elems, e) ==
    IF elems = <<>> THEN [ext |-> e, err |-> NoErr]
    ELSE LET r == parseSuffixElement(Head(elems), e)
         IN  IF r.err # NoErr THEN r ELSE ClassifyAll(Tail(elems), r.ext)

\* C21 (tokenizer): for a suffix with a "[" that is never closed, a character
\* outside brackets, or a "[" inside an element, parseSuffix returns
\* ErrInvalidSuffix (the elements before that place being ones the classifier
\* takes); for any other suffix it hands the interiors to the classifier one
\* by one in input order.
C21_Tokenizer ==
    (op \in {"Parse", "Validate"} /\ SuffixOf(input) # <<>>) =>
        LET sfx == SuffixOf(input)
            b == Brackets(sfx, <<>>)
            before == ClassifyAll(b.elems, NewIXDTFExtensions(NilArgs))
        IN  /\ (~b.ok /\ before.err = NoErr) => parseSuffix(sfx).err = ErrInvalidSuffix
            /\ b.ok => parseSuffix(sfx) = before

\* The first place where the suffix leaves the bracket structure is a "["
\* inside an element that is closed further on.
OpenInsideElement(s) ==
    LET b == Brackets(s, <<>>)
        n == Len(Concat(b.elems)) + 2 * Len(b.elems)
        rest == SubSeq(s, n + 1, Len(s))
    IN  ~b.ok /\ rest[1] = "[" /\ IndexByte(rest, "]") > 0

\* C22 (error priority): Parse returns the error of the earliest stage that
\* fails, the stages being the base timestamp parser, the bracket tokenizer
\* over the whole suffix, the classifier over the elements, and the zone
\* resolver with the offset check; so an unclosed bracket or a character
\* outside brackets anywhere in the suffix is reported before an element at
\* fault that comes before it.  (A "[" inside an element is left to C21.)
C22_ErrorPriority ==
    (op = "Parse" /\ ~OpenInsideElement(SuffixOf(input))) =>
        LET base == parseRFC3339Portion(BaseOf(input))
            sfx == SuffixOf(input)
            b == Brackets(sfx, <<>>)
            classified == ClassifyAll(b.elems, NewIXDTFExtensions(NilArgs))
            check == checkTimezoneConsistency(base.t, classified.ext.Location, strict)
        IN  IF base.err # NoErr THEN err = base.err
            ELSE IF ~b.ok THEN err = ErrInvalidSuffix
            ELSE IF classified.err # NoErr THEN err = classified.err
            ELSE err = check.err

\* A bracket interior without its leading "!", if it has one.
Body(c) == IF c # <<>> /\ c[1] = "!" THEN Tail(c) ELSE c

HasEq(c) == IndexByte(Body(c), "=") > 0

\* The parts of an interior with "=", before and after the first "=".
KeyOf(c) == SubSeq(Body(c), 1, IndexByte(Body(c), "=") - 1)

ValueOf(c) == SubSeq(Body(c), IndexByte(Body(c), "=") + 1, Len(Body(c)))

\* The key is outside the key grammar, or has a reserved prefix.
BadKey(k) == ~MatchSuffixKey(k) \/ ReservedKey(k)

\* C23 (classification): of the bracket interiors of an input, one that is
\* only "!", or has "=" with nothing before or nothing after it, makes Parse
\* and Validate fail; one with "=" whose key or value is outside its grammar
\* makes them fail too, also when an earlier element has the same key; and
\* after a successful Parse the tags are exactly the interiors with "=", each
\* key with the value after the first "=" of the first interior that has the
\* key, while the zone name is the last interior without "=" (time.UTC when
\* there is none), so no interior with "=" is taken for a zone.
C23_Classification ==
    (op \in {"Parse", "Validate"}) =>
        LET elems == Brackets(SuffixOf(input), <<>>).elems
            tagged == {i \in 1..Len(elems) : HasEq(elems[i])}
            zones == (1..Len(elems)) \ tagged
        IN  /\ \A i \in 1..Len(elems) :
                  ( \/ elems[i] = <<"!">>
                    \/ HasEq(elems[i]) /\ (KeyOf(elems[i]) = <<>> \/ ValueOf(elems[i]) = <<>>)
                    \/ HasEq(elems[i]) /\ (BadKey(KeyOf(elems[i])) \/ BadValue(ValueOf(elems[i]))) )
                  => err # NoErr
            /\ (op = "Parse" /\ err = NoErr) =>
                  /\ DOMAIN ext.Tags = {KeyOf(elems[i]) : i \in tagged}
                  /\ \A i \in tagged :
                        (\A j \in tagged : j < i => KeyOf(elems[j]) # KeyOf(elems[i]))
                            => /\ ext.Tags[KeyOf(elems[i])] = ValueOf(elems[i])
                               /\ IsCritical(ext, KeyOf(elems[i])) <=> (elems[i][1] = "!")
                  /\ LocationString(ext.Location) =
                        IF zones = {} THEN UTCName
                        ELSE elems[CHOOSE i \in zones : \A j \in zones : j <= i]

\* Parse refuses [a=1][a=-1]: the second a is dropped as a duplicate only
\* after its value has been checked.
C23_Witness ==
    /\ op = "Parse"
    /\ input = DateTime \o <<"Z">> \o Bracket(Tag(KeyA, <<"1">>))
                  \o Bracket(Tag(KeyA, <<"-","1">>))
    /\ err # NoErr

ValuePredicates ==
    { "isValidSuffixValue (scanner)", "isValidSuffixValueRange (scanner)",
      "AbnfSuffixValues.Validate", "isValidSuffixValue", "isValidSuffixValueRange" }

CriticalSubset(e) ==
    \A k \in DOMAIN e.Critical : e.Critical[k] => (k \in DOMAIN e.Tags /\ e.Tags[k] # <<>>)

\* C25 (critical keys are tags): in the Extensions of a successful Parse, and
\* in the Extensions parseSuffix holds after each element of the suffix, a
\* key marked critical is a key of the tags with a non-empty value; and a key
\* is marked critical only when the tag that gave it its value had "!".
C25_CriticalSubset ==
    LET sfx == SuffixOf(input)
        elems == Brackets(sfx, <<>>).elems
    IN  /\ (op \in {"Parse", "Validate"}) =>
              \A n \in 1..Len(sfx) :
                  sfx[n] = "]" => CriticalSubset(parseSuffix(SubSeq(sfx, 1, n)).ext)
        /\ (op = "Parse" /\ err = NoErr) =>
              /\ CriticalSubset(ext)
              /\ \A i \in 1..Len(elems) :
                    ( /\ HasEq(elems[i])
                      /\ elems[i][1] # "!"
                      /\ \A j \in 1..(i - 1) :
                            HasEq(elems[j]) => KeyOf(elems[j]) # KeyOf(elems[i]) )
                    => ~IsCritical(ext, KeyOf(elems[i]))

\* Parse takes [a=1][!a=2]: a is a tag and is not critical.
C25_Witness ==
    /\ op = "Parse" /\ err = NoErr
    /\ input = DateTime \o <<"Z">> \o Bracket(Tag(KeyA, <<"1">>))
                  \o Bracket(Bang(Tag(KeyA, <<"2">>)))
    /\ KeyA \in DOMAIN ext.Tags
    /\ ~IsCritical(ext, KeyA)

\* The keys a critical tag may have: u-ca, u-nu, and the keys with the x-
\* or the _ prefix.
RecognisedKey(k) ==
    \/ k \in { <<"u","-","c","a">>, <<"u","-","n","u">> }
    \/ HasPrefix(k, <<"x","-">>)
    \/ HasPrefix(k, <<"_">>)

\* C26 (unknown critical key): for an Extensions value with a critical tag
\* whose key is not a recognised extension, Format and FormatNano return an
\* error and no string, also when the tag has a value; such a tag is never
\* written.
C26_UnknownCriticalRefused ==
    ( /\ Formatting /\ ~ext.nil
      /\ \E k \in DOMAIN ext.Tags :
            IsCritical(ext, k) /\ ext.Tags[k] # <<>> /\ ~RecognisedKey(k) )
        => (err # NoErr /\ output = <<>>)

\* The cache holds successful resolutions only, each under its own name.
CacheSound ==
    \A n \in DOMAIN cache :
        /\ LoadLocation(n).err = NoErr
        /\ cache[n] = LoadLocation(n).loc
        /\ LocationString(cache[n]) = n

\* A lookup that has ended without error has the rules the cache holds for
\* its name.
CacheServes ==
    \A w \in Callers :
        (calls[w].pc = "done" /\ calls[w].err = NoErr)
            => (calls[w].name \in DOMAIN cache /\ calls[w].loc = cache[calls[w].name])

\* No step changes or removes an entry of the cache.
CacheKeeps ==
    \A n \in DOMAIN cache : n \in DOMAIN cache' /\ cache'[n] = cache[n]

\* C27 (zone cache under concurrency): with calls resolving the same or
\* different zone names in parallel, in every interleaving the cache holds
\* one entry for a name, only successful resolutions are stored, an entry
\* once written is never changed or removed, and every call that resolves a
\* cached name gets the cached rules.
C27_ZoneCache == [](CacheSound /\ CacheServes) /\ [][CacheKeeps]_vars

\* Two calls have missed Asia/Tokyo together: one has stored it, the other
\* is about to store it again.
C27_Witness ==
    /\ TokyoName \in DOMAIN cache
    /\ calls[1].pc = "done" /\ calls[1].name = TokyoName /\ ~calls[1].hit
    /\ calls[2].pc = "store" /\ calls[2].name = TokyoName

\* Parse of the string s, in the mode st, gives the zone name, the tags and
\* the critical keys of the Extensions e.
ReparsesTo(s, st, e) ==
    LET r == Parse(s, st)
    IN  /\ r.err = NoErr
        /\ LocationString(r.ext.Location) = LocationString(e.Location)
        /\ r.ext.Tags = e.Tags
        /\ r.ext.Critical = e.Critical

C29_InstantKept ==
    (op = "Parse" /\ err = NoErr) =>
        LET base == parseRFC3339Portion(BaseOf(input)).t
        IN  /\ TimeEqual(tm, base)
            /\ tm.loc = LoadLocation(LocationString(ext.Location)).loc

\* Parse in non-strict mode, noon Z with [EST]: the same instant, shown five
\* hours west.
C29_Witness ==
    /\ op = "Parse" /\ ~strict /\ err = NoErr
    /\ input = DateTime \o <<"Z">> \o Bracket(ESTName)
    /\ tm.sec = 43200
    /\ ZoneOffset(tm) = 0 - 18000

\* The keys an Extensions value marks critical.
CriticalKeys(e) == {k \in DOMAIN e.Critical : e.Critical[k]}

\* C30 (what Format writes can be parsed): for every time and every
\* Extensions value a caller has built, a string that Format or FormatNano
\* returns without error passes Validate in non-strict mode, and Parse of it
\* returns the tags and the critical keys of the Extensions value.
C30_OutputParses ==
    (Formatting /\ origin = "built" /\ err = NoErr) =>
        /\ Validate(output, FALSE).err = NoErr
        /\ Parse(output, FALSE).err = NoErr
        /\ Parse(output, FALSE).ext.Tags = ext.Tags
        /\ CriticalKeys(Parse(output, FALSE).ext) = CriticalKeys(ext)

=============================================================================
